---------------------------- MODULE Spec2Model ----------------------------
(***************************************************************************)
(* CreateConnectionsFromVariable (operator/variable_connection_operator):  *)
(* one run of execute() reads the Fernet key connection and the config     *)
(* Variable, then walks the config entries and, for each entry that passes *)
(* the field checks, decrypts the token and merges a Connection into the   *)
(* connection table (delete by conn_id, add, commit).                      *)
(*                                                                         *)
(* The connection table is a bag of rows (the table has no uniqueness      *)
(* constraint on conn_id, so duplicates are representable).  The config    *)
(* Variable is the sequence of its entries in iteration order; the index   *)
(* stands for config_key.  The secret entry named by fernet_key_conn_id is *)
(* kept apart from the rows the runs merge.                                *)
(***************************************************************************)
EXTENDS Integers, Sequences, FiniteSets, Bags, TLC

(***************************************************************************)
(* Bounds of the model.                                                    *)
(***************************************************************************)
MaxEntries == 2

(***************************************************************************)
(* JSON / Python values of the config Variable (deserialize_json=True).    *)
(***************************************************************************)
JTrue == [t |-> "bool", v |-> "True"]
JFalse == [t |-> "bool", v |-> "False"]
JNone == [t |-> "NoneType", v |-> "None"]
JInt7 == [t |-> "int", v |-> "7"]
JStr(s) == [t |-> "str", v |-> s]

\* dict.get(key, default)
Get(org_config, key, default) ==
    IF key \in DOMAIN org_config THEN org_config[key] ELSE default

\* isinstance(x, str)
IsStr(x) == x.t = "str"

\* '{0}'.format(x) is str(x): a str formats as itself, None as 'None', True
\* as 'True'; every value carries that text in v.
Format(x) == x.v

(***************************************************************************)
(* cryptography.fernet, as far as decrypt_str uses it: the tokens that     *)
(* exist, each with the key it was made under and its message.  Any other  *)
(* (key, string) pair is rejected with InvalidToken; Fernet(None) raises.  *)
(***************************************************************************)
FernetTokens ==
    { [ct |-> "ctA", key |-> "K1", msg |-> "tok123"],
      [ct |-> "ctB", key |-> "K1", msg |-> "tok456"],
      [ct |-> "ctA2", key |-> "K2", msg |-> "tok123"] }

Decryptable(fernet_key, encrypted_str) ==
    /\ IsStr(fernet_key)
    /\ \E c \in FernetTokens : c.key = fernet_key.v /\ c.ct = encrypted_str

decrypt_str_unauthenticated(fernet_key, encrypted_str) ==
    [msg |-> encrypted_str, raised |-> "none"]

\* decrypt_str: Fernet(fernet_key), f.decrypt(str.encode(s)), bytes.decode.
\* Fernet(None) raises TypeError, a string that is no token of the key
\* raises InvalidToken.
decrypt_str(fernet_key, encrypted_str) ==
    IF ~IsStr(fernet_key)
    THEN [msg |-> "", raised |-> "TypeError"]
    ELSE IF Decryptable(fernet_key, encrypted_str)
    THEN [msg |-> (CHOOSE c \in FernetTokens :
                      c.key = fernet_key.v /\ c.ct = encrypted_str).msg,
          raised |-> "none"]
    ELSE [msg |-> "", raised |-> "InvalidToken"]

(***************************************************************************)
(* The connection table.                                                   *)
(***************************************************************************)
Connection(conn_id, conn_type, host, password, extra) ==
    [conn_id |-> conn_id, conn_type |-> conn_type, host |-> host,
     password |-> password, extra |-> extra]

\* session.query(Connection).filter(Connection.conn_id == conn_id).delete()
DeleteWhere(table, conn_id) ==
    [r \in {x \in DOMAIN table : x.conn_id # conn_id} |-> table[r]]

merge_connection_no_delete(table, connection) ==
    table (+) SetToBag({connection})

merge_connection_delete_all(table, connection) ==
    SetToBag({connection})

\* merge_connection: delete the rows of that conn_id, add, commit.
merge_connection(table, connection) ==
    DeleteWhere(table, connection.conn_id) (+) SetToBag({connection})

(***************************************************************************)
(* The checks and derivations of the loop body of execute().               *)
(***************************************************************************)
IsDisabled_inverted(_is_enabled) == _is_enabled = JTrue

\* if _is_enabled is False: continue
IsDisabled(_is_enabled) == _is_enabled = JFalse

_enabled_types == {"GOOGLE_ANALYTICS", "HUBSPOT", "SALESFORCE"}

EnabledType_any(_type) == TRUE

\* _type in _enabled_types
EnabledType(_type) == IsStr(_type) /\ _type.v \in _enabled_types

ConnPrefix_all_sf(_type) == "sf"

\* Set the right connection prefix
ConnPrefix(_type) ==
    IF _type = "SALESFORCE" THEN "sf"
    ELSE IF _type = "HUBSPOT" THEN "hs"
    ELSE IF _type = "GOOGLE_ANALYTICS" THEN "ga"
    ELSE ""

InstanceUrl_no_override(_type, _instance_url) == _instance_url

\* the HUBSPOT branch replaces _instance_url
InstanceUrl(_type, _instance_url) ==
    IF _type = "HUBSPOT" THEN "https://api.hubapi.com/" ELSE _instance_url

\* 'conn_id={0}_{1}'.format(conn_prefix, _organization_name)
ConnId(_type, _organization_name) ==
    ConnPrefix(_type) \o "_" \o Format(_organization_name)

\* The Connection built from an entry and its decrypted token.
OrganizationConnection(org_config, access_token) ==
    Connection(ConnId(Get(org_config, "type", JNone).v,
                      Get(org_config, "organization", JNone)),
               "http",
               InstanceUrl(Get(org_config, "type", JNone).v,
                           Get(org_config, "instance_url", JNone).v),
               access_token,
               "{\"auth_type\": \"direct\"}")

NoConnection == Connection("", "", "", "", "")

(***************************************************************************)
(* One iteration of the for loop: table is the connection table before it, *)
(* fernet_key is secret_key_conn.password, commit_ok says whether the      *)
(* transaction of merge_connection commits.  The result holds the table    *)
(* after the iteration, what happened, whether decrypt_str was called, the *)
(* Connection that was built and the exception that left the iteration.    *)
(***************************************************************************)
Iteration(table, outcome, decrypted, conn, raised) ==
    [table |-> table, outcome |-> outcome, decrypted |-> decrypted,
     conn |-> conn, raised |-> raised]

LoopBody(table, fernet_key, org_config, commit_ok) ==
    LET _is_enabled == Get(org_config, "is_enabled", JFalse)
        _type == Get(org_config, "type", JNone)
        _token == Get(org_config, "token", JNone)
        _instance_url == Get(org_config, "instance_url", JNone)
    IN  IF IsDisabled(_is_enabled)
        THEN Iteration(table, "skip_disabled", FALSE, NoConnection, "none")
        ELSE IF ~EnabledType(_type)
        THEN Iteration(table, "skip_type", FALSE, NoConnection, "none")
        ELSE IF ~IsStr(_token)
        THEN Iteration(table, "skip_token", FALSE, NoConnection, "none")
        ELSE IF ~IsStr(_instance_url)
        THEN Iteration(table, "skip_instance_url", FALSE, NoConnection, "none")
        ELSE LET access_token == decrypt_str(fernet_key, _token.v)
                 organization_connection ==
                     OrganizationConnection(org_config, access_token.msg)
             IN  IF access_token.raised # "none"
                 THEN Iteration(table, "decrypt_failed", TRUE, NoConnection,
                                access_token.raised)
                 ELSE IF ~commit_ok
                 THEN Iteration(table, "merge_failed", TRUE,
                                organization_connection, "SQLAlchemyError")
                 ELSE Iteration(merge_connection(table, organization_connection),
                                "merged", TRUE, organization_connection, "none")

(***************************************************************************)
(* What the environment holds: the secret entry named by                   *)
(* fernet_key_conn_id and the entries the config Variable may contain.     *)
(***************************************************************************)
SecretNotFound == [found |-> FALSE, password |-> JNone]
SecretEntry(password) == [found |-> TRUE, password |-> password]
SecretEntries ==
    { SecretNotFound, SecretEntry(JNone),
      SecretEntry(JStr("K1")), SecretEntry(JStr("K2")) }

Entry(is_enabled, type, token, instance_url) ==
    [is_enabled |-> is_enabled, organization |-> JStr("acme"),
     type |-> type, token |-> token, instance_url |-> instance_url]

E_sf == Entry(JTrue, JStr("SALESFORCE"), JStr("ctA"),
              JStr("https://acme.my.salesforce.com"))
E_sf2 == Entry(JTrue, JStr("SALESFORCE"), JStr("ctB"),
               JStr("https://acme2.my.salesforce.com"))
E_hs == Entry(JTrue, JStr("HUBSPOT"), JStr("ctB"),
              JStr("https://ignored.example"))
E_ga == [is_enabled |-> JTrue, type |-> JStr("GOOGLE_ANALYTICS"),
         token |-> JStr("ctA2"), instance_url |-> JStr("https://ga.example")]
E_off == Entry(JFalse, JStr("SALESFORCE"), JStr("garbage"),
               JStr("https://acme.my.salesforce.com"))
E_unset == [organization |-> JStr("acme"), type |-> JStr("SALESFORCE"),
            token |-> JStr("ctB"), instance_url |-> JStr("https://x.example")]
E_null == Entry(JNone, JStr("HUBSPOT"), JStr("ctA"),
                JStr("https://null.example"))
E_type == Entry(JTrue, JStr("MARKETO"), JStr("garbage"),
                JStr("https://marketo.example"))
E_tok == Entry(JTrue, JStr("SALESFORCE"), JInt7,
               JStr("https://acme.my.salesforce.com"))
E_url == [is_enabled |-> JTrue, organization |-> JStr("acme"),
          type |-> JStr("HUBSPOT"), token |-> JStr("garbage")]
Entries ==
    { E_sf, E_sf2, E_hs, E_ga, E_off, E_unset, E_null, E_type, E_tok,
      E_url }

\* The values Variable.get can return: {} (also the default_var) and every
\* mapping of at most MaxEntries entries.
Configs == UNION { [1..n -> Entries] : n \in 0..MaxEntries }

EmptyTable == EmptyBag

\* Connection tables a run may find: empty, or rows left by earlier work
\* (one of a conn_id the entries derive, one of a conn_id they do not).
StaleTable ==
    SetToBag({ Connection("sf_acme", "http", "https://old.example", "oldtok",
                          "{\"auth_type\": \"direct\"}"),
               Connection("hs_gone", "http", "https://api.hubapi.com/",
                          "gonetok", "{\"auth_type\": \"direct\"}") })

InitTables == { EmptyTable, StaleTable }

(***************************************************************************)
(* State.                                                                  *)
(***************************************************************************)
VARIABLES
    connections,      \* the connection table
    secret_key_conn,  \* what BaseHook.get_connection found for this run
    dag_config_var,   \* the config of this run, in iteration order
    config_key,       \* position of the for loop
    pc,               \* "idle", "loop", "done" (returned), "failed" (raised)
    raised,           \* the exception that ended the run, or "none"
    pre,              \* the connection table when this run started
    last,             \* the last iteration of the loop (see LoopBody)
    first             \* for a repeated run: how the run before it ended

vars == << connections, secret_key_conn, dag_config_var, config_key, pc,
           raised, pre, last, first >>

NoIteration ==
    [key |-> 0, before |-> EmptyTable,
     it |-> Iteration(EmptyTable, "none", FALSE, NoConnection, "none")]

NoFirst ==
    [repeated |-> FALSE, pc |-> "idle", raised |-> "none",
     connections |-> EmptyTable]

Init ==
    /\ connections \in InitTables
    /\ secret_key_conn = SecretNotFound
    /\ dag_config_var = << >>
    /\ config_key = 0
    /\ pc = "idle"
    /\ raised = "none"
    /\ pre = connections
    /\ last = NoIteration
    /\ first = NoFirst

get_connection_lenient(secret) == [conn |-> secret, raised |-> "none"]

\* BaseHook.get_connection(self.fernet_key_conn_id): raises when there is
\* no such connection.
get_connection(secret) ==
    IF secret.found
    THEN [conn |-> secret, raised |-> "none"]
    ELSE [conn |-> secret, raised |-> "AirflowException"]

Propagates_only_decrypt(exception) ==
    exception \notin {"none", "SQLAlchemyError"}

\* execute() has no try/except: whatever an iteration raises leaves the loop.
Propagates(exception) == exception # "none"

\* execute(), up to the for statement.
Begin(secret, config) ==
    LET got == get_connection(secret)
    IN  /\ secret_key_conn' = got.conn
        /\ dag_config_var' = config
        /\ pre' = connections
        /\ last' = NoIteration
        /\ connections' = connections
        /\ IF got.raised # "none"
           THEN /\ pc' = "failed"
                /\ raised' = got.raised
                /\ config_key' = 0
           ELSE /\ pc' = IF Len(config) = 0 THEN "done" ELSE "loop"
                /\ raised' = "none"
                /\ config_key' = 1

\* A run over whatever the secret store and the config Variable hold now.
Execute ==
    /\ pc = "idle"
    /\ \E secret \in SecretEntries, config \in Configs :
           Begin(secret, config)
    /\ first' = NoFirst

\* A second run right after a run, with the secret entry and the config
\* Variable unchanged.
ExecuteAgain ==
    /\ pc \in {"done", "failed"}
    /\ ~first.repeated
    /\ Begin(secret_key_conn, dag_config_var)
    /\ first' = [repeated |-> TRUE, pc |-> pc, raised |-> raised,
                 connections |-> connections]

\* One iteration of the for loop.
Iterate ==
    /\ pc = "loop"
    /\ \E commit_ok \in BOOLEAN :
           LET it == LoopBody(connections, secret_key_conn.password,
                              dag_config_var[config_key], commit_ok)
           IN  /\ connections' = it.table
               /\ last' = [key |-> config_key, before |-> connections, it |-> it]
               /\ IF Propagates(it.raised)
                  THEN /\ pc' = "failed"
                       /\ raised' = it.raised
                       /\ config_key' = config_key
                  ELSE /\ pc' = IF config_key = Len(dag_config_var)
                                THEN "done" ELSE "loop"
                       /\ raised' = "none"
                       /\ config_key' = config_key + 1
    /\ UNCHANGED << secret_key_conn, dag_config_var, pre, first >>

\* execute() has returned or raised and its frame is gone; the connection
\* table is all that is left of the run.
Return ==
    /\ pc \in {"done", "failed"}
    /\ pc' = "idle"
    /\ secret_key_conn' = SecretNotFound
    /\ dag_config_var' = << >>
    /\ config_key' = 0
    /\ raised' = "none"
    /\ pre' = connections
    /\ last' = NoIteration
    /\ first' = NoFirst
    /\ UNCHANGED connections

Next == Execute \/ ExecuteAgain \/ Iterate \/ Return

Spec == Init /\ [][Next]_vars

\* The for loop of execute() from position k on, every transaction
\* committing: the table it leaves and the exception it raised.
RECURSIVE ExecuteFrom(_, _, _, _)
ExecuteFrom(table, fernet_key, config, k) ==
    IF k > Len(config)
    THEN [table |-> table, raised |-> "none"]
    ELSE LET it == LoopBody(table, fernet_key, config[k], TRUE)
         IN  IF Propagates(it.raised)
             THEN [table |-> it.table, raised |-> it.raised]
             ELSE ExecuteFrom(it.table, fernet_key, config, k + 1)

(***************************************************************************)
(* Vocabulary of the properties.                                           *)
(***************************************************************************)
\* the number of rows of a table with this conn_id
Rows(table, conn_id) ==
    BagCardinality([r \in {x \in DOMAIN table : x.conn_id = conn_id} |-> table[r]])

InRun == pc # "idle"
Iterated == last.key # 0
LastEntry == dag_config_var[last.key]
FernetKey == secret_key_conn.password
Positions == 1..Len(dag_config_var)

Has(e, field) == field \in DOMAIN e

\* is_enabled is false or absent
Off(e) == ~Has(e, "is_enabled") \/ e.is_enabled = JFalse

SupportedType(e) ==
    /\ Has(e, "type")
    /\ e.type \in { JStr("GOOGLE_ANALYTICS"), JStr("HUBSPOT"), JStr("SALESFORCE") }

StringField(e, field) == Has(e, field) /\ e[field].t = "str"

\* the entry fails one of the three field checks
Malformed(e) ==
    ~SupportedType(e) \/ ~StringField(e, "token") \/ ~StringField(e, "instance_url")

\* the entry passes validation
Validated(e) == ~Off(e) /\ ~Malformed(e)

\* the iteration changed nothing and raised nothing
Skipped(l) ==
    /\ l.it.outcome \in {"skip_disabled", "skip_type", "skip_token",
                         "skip_instance_url"}
    /\ ~l.it.decrypted
    /\ l.it.raised = "none"
    /\ connections = l.before

\* the run went on behind position k
WentOn(k) ==
    /\ raised = "none"
    /\ config_key = k + 1
    /\ pc = IF k = Len(dag_config_var) THEN "done" ELSE "loop"

\* the run stopped at position k with the table as the iteration found it
AbortedAt(l) ==
    /\ pc = "failed"
    /\ raised = l.it.raised
    /\ raised # "none"
    /\ config_key = l.key
    /\ connections = l.before

\* the rows of a table with a conn_id outside ids
Outside(table, ids) ==
    [r \in {x \in DOMAIN table : x.conn_id \notin ids} |-> table[r]]

Orders(n) ==
    { p \in [1..n -> 1..n] : \A a, b \in 1..n : p[a] = p[b] => a = b }

Reordered(config, p) == [k \in 1..Len(config) |-> config[p[k]]]


(***************************************************************************)
(* C1: in every reachable state, between the iterations of a run too, the  *)
(* connection table holds at most one row of any conn_id.                  *)
(***************************************************************************)
C1_AtMostOneRowPerConnId ==
    \A r \in DOMAIN connections : Rows(connections, r.conn_id) <= 1

\* a merge has replaced the row of its conn_id, and the run goes on
C1_Witness ==
    /\ pc = "loop"
    /\ last.it.outcome = "merged"
    /\ Rows(last.before, last.it.conn.conn_id) = 1
    /\ Rows(connections, last.it.conn.conn_id) = 1
    /\ last.it.conn \notin DOMAIN last.before

(***************************************************************************)
(* C2 as stated: an entry whose is_enabled is anything but true is skipped *)
(* with no decryption and no change of the table.                          *)
(***************************************************************************)
C2_Original ==
    (Iterated /\ (~Has(LastEntry, "is_enabled") \/ LastEntry.is_enabled # JTrue))
        => Skipped(last)

(***************************************************************************)
(* C2 amended: an entry whose is_enabled is false or absent is skipped     *)
(* with no decryption, no change of the table and no error, and a run      *)
(* whose entries are all of this kind ends with the table as it found it.  *)
(***************************************************************************)
C2_DisabledSkipped ==
    /\ (Iterated /\ Off(LastEntry)) =>
           /\ Skipped(last)
           /\ last.it.outcome = "skip_disabled"
           /\ WentOn(last.key)
    /\ (InRun /\ \A k \in Positions : Off(dag_config_var[k])) =>
           /\ connections = pre
           /\ secret_key_conn.found => pc # "failed"

\* a finished run over a false and an absent is_enabled, both with fields
\* that would otherwise be processed
C2_Witness ==
    /\ pc = "done"
    /\ dag_config_var = << E_off, E_unset >>
    /\ FernetKey = JStr("K1")
    /\ connections = StaleTable

(***************************************************************************)
(* C3: an entry that is not disabled and has an unsupported type, or a     *)
(* token or instance_url that is no string, is skipped before decryption:  *)
(* no row is created or deleted, nothing is raised, the run goes on.       *)
(***************************************************************************)
C3_MalformedSkipped ==
    (Iterated /\ ~Off(LastEntry) /\ Malformed(LastEntry)) =>
        /\ Skipped(last)
        /\ last.it.outcome # "skip_disabled"
        /\ WentOn(last.key)

\* an entry of unsupported type whose token would not decrypt was passed
\* over, and the entry behind it was merged
C3_Witness ==
    /\ dag_config_var = << E_type, E_sf >>
    /\ FernetKey = JStr("K1")
    /\ pc = "done"
    /\ pre = EmptyTable
    /\ BagCardinality(connections) = 1

(***************************************************************************)
(* C4: the row merged for an entry has conn_id <prefix>_<organization>     *)
(* with prefix sf, hs or ga by type, conn_type http, the decrypted token   *)
(* as password, extra {"auth_type": "direct"}, and the entry's             *)
(* instance_url as host, except that a HUBSPOT row has the host            *)
(* https://api.hubapi.com/.                                                *)
(***************************************************************************)
C4_MergedRecord ==
    last.it.outcome = "merged" =>
        LET e == LastEntry
            c == last.it.conn
        IN  /\ Validated(e)
            /\ c.conn_id =
                  (CASE e.type.v = "SALESFORCE" -> "sf"
                     [] e.type.v = "HUBSPOT" -> "hs"
                     [] e.type.v = "GOOGLE_ANALYTICS" -> "ga")
                  \o "_" \o Format(Get(e, "organization", JNone))
            /\ c.conn_type = "http"
            /\ \E t \in FernetTokens :
                   /\ t.key = FernetKey.v
                   /\ t.ct = e.token.v
                   /\ c.password = t.msg
            /\ c.extra = "{\"auth_type\": \"direct\"}"
            /\ c.host = IF e.type.v = "HUBSPOT" THEN "https://api.hubapi.com/"
                        ELSE e.instance_url.v
            /\ c \in DOMAIN connections
            /\ connections[c] = 1

\* a HUBSPOT entry with an instance_url of its own has been merged
C4_Witness ==
    /\ last.it.outcome = "merged"
    /\ LastEntry = E_hs
    /\ last.it.conn.conn_id = "hs_acme"
    /\ last.it.conn.password = "tok456"


\* the conn_id a validated entry derives
DerivedConnId(e) == ConnId(e.type.v, Get(e, "organization", JNone))

\* every validated entry of the config has exactly one row of its conn_id
OneRowPerValidatedEntry ==
    \A k \in Positions :
        Validated(dag_config_var[k]) =>
            Rows(connections, DerivedConnId(dag_config_var[k])) = 1

C6_DecryptFailureAborts ==
    (Iterated /\ Validated(LastEntry)
              /\ ~Decryptable(FernetKey, LastEntry.token.v)) =>
        /\ AbortedAt(last)
        /\ raised \in {"InvalidToken", "TypeError"}
        /\ last.it.outcome = "decrypt_failed"

\* the first entry was merged, the token of the second did not decrypt, and
\* a third entry was never reached
C6_Witness ==
    /\ pc = "failed"
    /\ raised = "InvalidToken"
    /\ last.key = 2
    /\ dag_config_var[1] = E_sf
    /\ dag_config_var[2] = E_ga
    /\ pre = EmptyTable
    /\ Rows(connections, "sf_acme") = 1
    /\ BagCardinality(connections) = 1

(***************************************************************************)
(* C7 as stated: a failed transaction of one entry does not fail the run.  *)
(***************************************************************************)
C7_Original ==
    last.it.outcome = "merge_failed" => pc # "failed"

(***************************************************************************)
(* C7 amended: when the transaction of one entry fails, the table keeps    *)
(* what it held before that entry, the error leaves execute() and the run  *)
(* ends there: no later entry is processed.                                *)
(***************************************************************************)
C7_PersistenceFailureAborts ==
    last.it.outcome = "merge_failed" =>
        /\ AbortedAt(last)
        /\ raised = "SQLAlchemyError"

\* the transaction of the first of two mergeable entries failed
C7_Witness ==
    /\ last.it.outcome = "merge_failed"
    /\ last.key = 1
    /\ dag_config_var = << E_sf, E_hs >>
    /\ FernetKey = JStr("K1")


(***************************************************************************)
(* C8 as stated: with the secret entry missing or without a secret value,  *)
(* the run fails before any entry is processed, whatever the config, and   *)
(* the table is unchanged.                                                 *)
(***************************************************************************)
C8_Original ==
    (InRun /\ (~secret_key_conn.found \/ FernetKey = JNone)) =>
        /\ pc = "failed"
        /\ ~Iterated
        /\ connections = pre

(***************************************************************************)
(* C8 amended: with the secret entry missing, the run fails before any     *)
(* entry is processed, whatever the config.  With a secret entry that has  *)
(* no secret value, the run fails at the first entry that passes           *)
(* validation, when its token is to be decrypted, and completes when the   *)
(* config has no such entry.  In both cases the table is unchanged.        *)
(***************************************************************************)
C8_KeyResolution ==
    /\ (InRun /\ ~secret_key_conn.found) =>
           /\ pc = "failed"
           /\ raised = "AirflowException"
           /\ ~Iterated
           /\ connections = pre
    /\ (InRun /\ secret_key_conn.found /\ FernetKey = JNone) =>
           /\ connections = pre
           /\ pc = "failed" <=> (Iterated /\ Validated(LastEntry))
           /\ pc = "failed" => raised = "TypeError"
           /\ \A k \in 1..(config_key - 1) :
                  k \in Positions => ~Validated(dag_config_var[k])

\* the secret entry is missing and the config holds entries that would
\* have been merged
C8_Witness ==
    /\ pc = "failed"
    /\ ~secret_key_conn.found
    /\ dag_config_var = << E_sf, E_hs >>
    /\ connections = StaleTable

\* validated entries with the same type and organization build the same row
NoConflict(config, fernet_key) ==
    \A j, k \in 1..Len(config) :
        (/\ Validated(config[j])
         /\ Validated(config[k])
         /\ config[j].type = config[k].type
         /\ Format(Get(config[j], "organization", JNone))
                = Format(Get(config[k], "organization", JNone))) =>
            /\ decrypt_str(fernet_key, config[j].token.v)
                 = decrypt_str(fernet_key, config[k].token.v)
            /\ \/ config[j].type = JStr("HUBSPOT")
               \/ config[j].instance_url = config[k].instance_url

\* every order of the entries leaves the table of this run
SameInEveryOrder ==
    \A p \in Orders(Len(dag_config_var)) :
        ExecuteFrom(pre, FernetKey, Reordered(dag_config_var, p), 1).table
            = connections

(***************************************************************************)
(* C9 as stated: the table a run ends with does not depend on the order in *)
(* which the entries of the config are visited, also when two entries have *)
(* the same type and organization (taken on the runs that complete, over   *)
(* entries whose is_enabled is a boolean and whose fields are well formed).*)
(***************************************************************************)
C9_Original ==
    (/\ pc = "done"
     /\ \A k \in Positions : dag_config_var[k] \in {E_sf, E_sf2, E_hs, E_off})
        => SameInEveryOrder

(***************************************************************************)
(* C9 amended: when every entry that passes validation decrypts and every  *)
(* transaction commits, and the entries that pass validation and have the  *)
(* same type and organization also have the same decrypted token and the   *)
(* same host, the table the run ends with does not depend on the order in  *)
(* which the entries are visited.                                          *)
(***************************************************************************)
C9_OrderIndependent ==
    (pc = "done" /\ NoConflict(dag_config_var, FernetKey)) => SameInEveryOrder

\* a finished run that merged two entries of different conn_ids
C9_Witness ==
    /\ pc = "done"
    /\ dag_config_var = << E_hs, E_sf >>
    /\ FernetKey = JStr("K1")
    /\ pre = StaleTable
    /\ BagCardinality(connections) = 3

\* the number of copies of row r in a table
Copies(table, r) == IF r \in DOMAIN table THEN table[r] ELSE 0

\* conn_id is the conn_id of an entry that passes validation and decrypts
Mergeable(conn_id) ==
    \E k \in Positions :
        /\ Validated(dag_config_var[k])
        /\ Decryptable(FernetKey, dag_config_var[k].token.v)
        /\ conn_id = DerivedConnId(dag_config_var[k])

(***************************************************************************)
(* C10: throughout a run, the rows whose conn_id is not the conn_id of an  *)
(* entry of the config that passes validation and decrypts are the rows    *)
(* the run found: none of them is deleted, changed or added.               *)
(***************************************************************************)
C10_OtherRowsUntouched ==
    InRun =>
        \A r \in DOMAIN connections \union DOMAIN pre :
            Copies(connections, r) # Copies(pre, r) => Mergeable(r.conn_id)

\* a row merged by an earlier run, whose entry is gone from the config and
\* replaced by a disabled one, is there after a run that merged another row
C10_Witness ==
    /\ pc = "done"
    /\ dag_config_var = << E_off, E_sf >>
    /\ FernetKey = JStr("K1")
    /\ last.it.outcome = "merged"
    /\ Connection("hs_acme", "http", "https://api.hubapi.com/", "tok456",
                  "{\"auth_type\": \"direct\"}") \in DOMAIN pre
    /\ Outside(connections, {"sf_acme"}) = Outside(pre, {"sf_acme"})
    /\ connections # pre


=============================================================================
